---- MODULE Spec2Model ----
(***************************************************************************)
(* Model of src/lib.rs: the Device/Surface Manager (struct State) and the  *)
(* Application Controller (struct App) driven by the winit event loop, on  *)
(* both build targets (native: blocking bootstrap, wasm32: deferred        *)
(* bootstrap through spawn_local and an EventLoopProxy).                   *)
(***************************************************************************)
EXTENDS Integers, Sequences, FiniteSets, TLC

\* ------------------------------------------------------------------ bounds
\* Largest width the host reports (0 is a width the host reports).
MaxWidth == 2
\* Number of resumed signals the host delivers in one run.
MaxResumes == 2
\* Longest list of supported surface formats (format selection only).
MaxFormats == 3

\* ------------------------------------------------------------- data types
\* Option<T>: None is the empty sequence, Some(x) the one-element sequence.
None == <<>>
Some(x) == <<x>>

\* The widths and heights (u32) the host reports: zero, and more than one non-zero
\* value of each, so that a stale dimension differs from a fresh one.
Widths == 0 .. MaxWidth
Heights == {0, 1, 2}
\* winit::dpi::PhysicalSize<u32>
PhysicalSize == [width : Widths, height : Heights]

\* wgpu::TextureFormat, the ones the model's hosts report.
TextureFormats == {"Bgra8Unorm", "Rgba8Unorm", "Bgra8UnormSrgb", "Rgba8UnormSrgb"}
\* wgpu::TextureFormat::is_srgb, as called at line 47.
is_srgb(f) == f \in {"Bgra8UnormSrgb", "Rgba8UnormSrgb"}

\* Surface capabilities a host GPU can report (surface.get_capabilities): a usual
\* one, and one with no format at all.
HostCaps ==
    { [formats |-> <<"Bgra8Unorm", "Bgra8UnormSrgb">>, alpha_modes |-> <<"PreMultiplied", "Opaque">>],
      [formats |-> <<>>, alpha_modes |-> <<"Opaque">>] }

\* Every list of supported formats up to MaxFormats long.
FormatLists == UNION { [1 .. n -> TextureFormats] : n \in 0 .. MaxFormats }

\* One GPU call, as seen by the host GPU API.
Op(name) == [op |-> name, color |-> "", draws |-> 0, buffers |-> 0]

\* The host shows one client area: on the native target a window replaced by a
\* later resumed is dropped with its Manager before the handler returns, and on
\* wasm32 every window is bound to the same canvas element (line 127). inner_size is
\* the size of that client area.
VARIABLES
    target,            \* "native" or "wasm": cfg(target_arch = "wasm32")
    caps,              \* what surface.get_capabilities reports on this host
    control,           \* "running", "exited" (event_loop.exit), "aborted" (panic)
    panic,             \* None, or Some([init, at]): the initialization and call that panicked
    created,           \* number of windows created so far (window ids are 1..created)
    window,            \* App.window: Option<Arc<Window>>, a window id
    state,             \* App.state: Option<State>
    tasks,             \* wasm: the spawn_local future of each initialization, by id
    proxy_events,      \* wasm: States sent through the EventLoopProxy, not yet delivered
    inner_size,        \* window.inner_size(): the client size the host reports now
    redraw_requested,  \* window.request_redraw() was called and not yet served
    handler,           \* the handler (or task step) that ran last
    ops,               \* the GPU calls made by the handler that ran last, in order
    last_resize,       \* the size passed to the last State::resize on the installed Manager
    size_read,         \* the size State::new read at line 50 in the last step, if it got there
    lastKnown,         \* the size of the last Resized event delivered for the current window
    fate,              \* per initialization: whether its State was installed in App.state or dropped
    arcs               \* per window: the strong count of its Arc<Window>

vars == <<target, caps, control, panic, created, window, state, tasks, proxy_events,
          inner_size, redraw_requested, handler, ops, last_resize, size_read,
          lastKnown, fate, arcs>>

\* --------------------------------------------------------------- State::new
\* caps.formats.iter().find(|f| f.is_srgb()).copied()
RECURSIVE find_srgb(_)
find_srgb(formats) ==
    IF formats = <<>> THEN None
    ELSE IF is_srgb(Head(formats)) THEN Some(Head(formats))
    ELSE find_srgb(Tail(formats))

\* Variant of select_format: the first reported format, gamma-encoded or not.
select_format_first(formats) == formats[1]

\* .unwrap_or(caps.formats[0]); only called on a non-empty list (indexing panics first).
select_format(formats) ==
    IF find_srgb(formats) # None THEN find_srgb(formats)[1] ELSE formats[1]

\* wgpu::SurfaceConfiguration { .. } as built in State::new.
SurfaceConfiguration(format, size, alpha_mode) ==
    [ usage |-> "RENDER_ATTACHMENT",
      format |-> format,
      width |-> size.width,
      height |-> size.height,
      present_mode |-> "Fifo",
      desired_maximum_frame_latency |-> 3,
      alpha_mode |-> alpha_mode,
      view_formats |-> <<>> ]

\* The result of a step of State::new: a panic (at names the call) or a State.
\* read is the size read at line 50, when the step got there.
Panicked(w, at) ==
    [panic |-> Some([init |-> w, at |-> at]), value |-> None, ops |-> <<>>, read |-> None]

\* The assertion of line 51.
size_ok(size) == size.width > 0 /\ size.height > 0

\* Variant of new_finish: the assertion of line 51 left out.
new_finish_unasserted(w, c, size) ==
    IF Len(c.formats) = 0 THEN Panicked(w, "caps.formats[0]")
    ELSE IF Len(c.alpha_modes) = 0
    THEN [Panicked(w, "caps.alpha_modes[0]") EXCEPT !.read = Some(size)]
    ELSE LET config == SurfaceConfiguration(select_format(c.formats), size, c.alpha_modes[1])
         IN  [ panic |-> None,
               value |-> Some([ surface |-> [window |-> w, config |-> config],
                                device |-> w,
                                queue |-> w,
                                config |-> config ]),
               ops |-> <<Op("configure")>>,
               read |-> Some(size) ]

\* Lines 43-69: capabilities, format, size, assertion, configuration, configure.
\* c is the capabilities record, size the client size read at line 50.
new_finish(w, c, size) ==
    IF Len(c.formats) = 0 THEN Panicked(w, "caps.formats[0]")
    ELSE IF ~size_ok(size) THEN [Panicked(w, "assert_size") EXCEPT !.read = Some(size)]
    ELSE IF Len(c.alpha_modes) = 0
    THEN [Panicked(w, "caps.alpha_modes[0]") EXCEPT !.read = Some(size)]
    ELSE LET config == SurfaceConfiguration(select_format(c.formats), size, c.alpha_modes[1])
         IN  [ panic |-> None,
               value |-> Some([ surface |-> [window |-> w, config |-> config],
                                device |-> w,
                                queue |-> w,
                                config |-> config ]),
               ops |-> <<Op("configure")>>,
               read |-> Some(size) ]

\* Lines 26-42: the three fallible calls before the capabilities are read.
\* fail names the call the host makes fail, or "none".
Failures == {"none", "create_surface", "request_adapter", "request_device"}

\* State::new run to completion (pollster::block_on).
new(w, fail, c, size) ==
    IF fail # "none" THEN Panicked(w, fail) ELSE new_finish(w, c, size)

\* ------------------------------------------------------------ State methods
\* Variant of State::resize: line 75 left out (the height is never updated).
resize_width_only(st, size) ==
    LET config == [st.config EXCEPT !.width = size.width]
    IN  [st EXCEPT !.config = config, !.surface.config = config]

\* Variant of State::resize: the configuration is built anew, with default alpha handling.
resize_rebuilt(st, size) ==
    LET config == SurfaceConfiguration(st.config.format, size, "Auto")
    IN  [st EXCEPT !.config = config, !.surface.config = config]

\* State::resize
resize(st, size) ==
    LET config == [st.config EXCEPT !.width = size.width, !.height = size.height]
    IN  [st EXCEPT !.config = config, !.surface.config = config]

\* Variant of State::render: the frame is presented before the commands are submitted.
render_present_first(st, acquired) ==
    IF ~acquired
    THEN [ panicked |-> TRUE, ops |-> <<Op("get_current_texture")>> ]
    ELSE [ panicked |-> FALSE,
           ops |-> << Op("get_current_texture"),
                      Op("create_view"),
                      Op("create_command_encoder"),
                      [Op("begin_render_pass") EXCEPT !.color = "RED"],
                      Op("finish"),
                      Op("present"),
                      [Op("submit") EXCEPT !.buffers = 1] >> ]

\* State::render: the GPU calls it makes, in order. acquired is whether
\* get_current_texture returns a frame; the unwrap of line 80 panics otherwise.
render(st, acquired) ==
    IF ~acquired
    THEN [ panicked |-> TRUE, ops |-> <<Op("get_current_texture")>> ]
    ELSE [ panicked |-> FALSE,
           ops |-> << Op("get_current_texture"),
                      Op("create_view"),
                      Op("create_command_encoder"),
                      [Op("begin_render_pass") EXCEPT !.color = "RED"],
                      Op("finish"),
                      [Op("submit") EXCEPT !.buffers = 1],
                      Op("present") >> ]

\* ------------------------------------------------------------ Arc<Window>
\* Arc::clone: one more owner of window w.
arc_clone(a, w) == [a EXCEPT ![w] = @ + 1]

\* An Arc<Window> of window w is dropped; the window is destroyed at count 0.
arc_drop(a, w) == [a EXCEPT ![w] = @ - 1]

\* An Option<Arc<Window>> is dropped (the old value of App.window on assignment).
drop_window(a, opt) == IF opt = None THEN a ELSE arc_drop(a, opt[1])

\* An Option<State> is dropped: its Surface goes, and with it the Arc the Surface owns.
drop_state(a, st) == IF st = None THEN a ELSE arc_drop(a, st[1].surface.window)

\* Variant of create_surface: the surface is made from a borrowed window handle
\* and owns no Arc.
create_surface_borrowed(a, w) == a

\* Line 31: instance.create_surface(window.clone()): the surface owns a clone.
create_surface(a, w) == arc_clone(a, w)

\* ------------------------------------------------------------------ App
\* Variant of the Resized arm: the Manager is taken out of the slot
\* (self.state.take()) to be resized, and not put back.
on_resized_taken(st, size) ==
    IF st # None
    THEN [state |-> None, ops |-> <<Op("configure")>>]
    ELSE [state |-> st, ops |-> <<>>]

\* The Resized arm of App::window_event: the new value of App.state, and the
\* GPU calls made (State::resize reconfigures the surface).
on_resized(st, size) ==
    IF st # None
    THEN [state |-> Some(resize(st[1], size)), ops |-> <<Op("configure")>>]
    ELSE [state |-> st, ops |-> <<>>]

\* Variant of the RedrawRequested arm: self.state.as_ref().unwrap().render().
on_redraw_unwrap(st, acquired) ==
    IF st # None THEN render(st[1], acquired) ELSE [panicked |-> TRUE, ops |-> <<>>]

\* The RedrawRequested arm of App::window_event: what State::render did, if called.
on_redraw(st, acquired) ==
    IF st # None THEN render(st[1], acquired) ELSE [panicked |-> FALSE, ops |-> <<>>]

\* The initializations spawned and not yet completed.
Pending ==
    {w \in 1 .. MaxResumes : tasks[w] \in {"spawned", "request_adapter", "request_device"}}

\* Variant of the CloseRequested arm: the loop is closed only once no
\* initialization is pending and no completion event is waiting.
on_close_waits(c) ==
    IF Pending # {} \/ proxy_events # <<>> THEN c ELSE "exited"

\* Variant of the CloseRequested arm: the event is ignored.
on_close_ignored(c) == c

\* The CloseRequested arm of App::window_event: event_loop.exit().
on_close(c) == "exited"

\* Variant of App::user_event: the Manager is brought to the window's present
\* client size before it is installed.
on_user_event_replay(st, event) ==
    IF target = "wasm" THEN Some(resize(event, inner_size)) ELSE st

\* App::user_event: the new value of App.state (the body is compiled for wasm32 only).
on_user_event(st, event) ==
    IF target = "wasm" THEN Some(event) ELSE st

\* Variant of line 141: State::new is run to completion and its result is not stored.
block_on_new_unstored(st, value) == st

\* Line 141, native: self.state = Some(pollster::block_on(State::new(window))).
\* st is App.state before, value the Some(State) the initialization returned.
block_on_new(st, value) == value

\* Variant of lines 166-168: the Manager is installed and no redraw is requested.
request_redraw_omitted(requested, win) == requested

\* Lines 166-168: if let Some(window) = &self.window { window.request_redraw() }.
request_redraw(requested, win) == IF win # None THEN TRUE ELSE requested

\* Variant of send_event: the proxy holds one undelivered event at most and
\* refuses another.
send_event_single(queue, event) ==
    IF control = "running" /\ queue = <<>> THEN Append(queue, event) ELSE queue

\* event_loop_proxy.send_event(state): the event is queued while the loop runs,
\* and returned (and dropped) once the loop has exited.
send_event(queue, event) ==
    IF control = "running" THEN Append(queue, event) ELSE queue

\* run(): App::default(), the event loop built, no event dispatched yet, on a
\* target of Targets and a host whose surfaces report one of Capabilities.
Boot(Targets, Capabilities) ==
    /\ target \in Targets
    /\ caps \in Capabilities
    /\ control = "running"
    /\ panic = None
    /\ created = 0
    /\ window = None
    /\ state = None
    /\ tasks = [i \in 1 .. MaxResumes |-> "none"]
    /\ proxy_events = <<>>
    /\ inner_size = [width |-> 0, height |-> 0]
    /\ redraw_requested = FALSE
    /\ handler = "run"
    /\ ops = <<>>
    /\ last_resize = None
    /\ size_read = None
    /\ lastKnown = None
    /\ fate = [i \in 1 .. MaxResumes |-> "none"]
    /\ arcs = [i \in 1 .. MaxResumes |-> 0]

Init == Boot({"native", "wasm"}, HostCaps)

\* Variant of Abort: the panic is caught and reported, and the loop goes on.
Abort_caught(p) ==
    /\ control' = control
    /\ panic' = p

\* A panic: the process aborts where it stands.
Abort(p) ==
    /\ control' = "aborted"
    /\ panic' = p

\* App::resumed. size0 is the client size the host gives the new window,
\* fail the call the host makes fail (native: State::new runs inside the handler).
resumed ==
    /\ control = "running"
    /\ created < MaxResumes
    /\ \E size0 \in PhysicalSize, fail \in Failures \cup {"create_window"} :
         LET w == created + 1 IN
         /\ handler' = "resumed"
         /\ UNCHANGED <<target, caps, proxy_events, redraw_requested>>
         /\ IF fail = "create_window"
            THEN /\ Abort(Some([init |-> w, at |-> fail]))
                 /\ ops' = <<>>
                 /\ size_read' = None
                 /\ UNCHANGED <<created, window, state, tasks, inner_size, last_resize,
                                lastKnown, fate, arcs>>
            ELSE \* lines 130-131: Arc::new(window), self.window = Some(window.clone())
                 LET held == drop_window(arc_clone([arcs EXCEPT ![w] = 1], w), window) IN
                 /\ created' = w
                 /\ window' = Some(w)
                 /\ inner_size' = size0
                 /\ lastKnown' = None
                 /\ IF target = "wasm"
                    THEN \* the Arc made at line 130 moves into the future
                         /\ fail = "none"
                         /\ tasks' = [tasks EXCEPT ![w] = "spawned"]
                         /\ ops' = <<>>
                         /\ size_read' = None
                         /\ arcs' = held
                         /\ UNCHANGED <<control, panic, state, last_resize, fate>>
                    ELSE LET r == new(w, fail, caps, size0) IN
                         /\ ops' = r.ops
                         /\ size_read' = r.read
                         /\ tasks' = tasks
                         /\ IF r.panic # None
                            THEN /\ Abort(r.panic)
                                 /\ arcs' = create_surface(held, w)
                                 /\ UNCHANGED <<state, last_resize, fate>>
                            ELSE \* State::new returns (its window argument is dropped),
                                 \* the old value of App.state is dropped
                                 /\ state' = block_on_new(state, r.value)
                                 /\ arcs' = drop_state(arc_drop(create_surface(held, w), w), state)
                                 /\ fate' = [fate EXCEPT ![w] =
                                                 IF state' = r.value THEN "installed"
                                                 ELSE "discarded"]
                                 /\ last_resize' = None
                                 /\ UNCHANGED <<control, panic>>

\* wasm: one poll of the future spawned at line 136, from one await to the next.
\* ok is whether the call the step resumes from (or makes) succeeded.
task_poll ==
    /\ target = "wasm"
    /\ control # "aborted"
    /\ \E w \in 1 .. MaxResumes, ok \in BOOLEAN :
         /\ tasks[w] \in {"spawned", "request_adapter", "request_device"}
         /\ handler' = "task"
         /\ UNCHANGED <<target, caps, created, window, state, inner_size,
                        redraw_requested, last_resize, lastKnown>>
         /\ IF tasks[w] = "spawned"
            THEN \* lines 26-37: create_surface(..).unwrap(), request_adapter(..).await
                 /\ ops' = <<>>
                 /\ size_read' = None
                 /\ proxy_events' = proxy_events
                 /\ fate' = fate
                 /\ IF ok THEN /\ tasks' = [tasks EXCEPT ![w] = "request_adapter"]
                               /\ arcs' = create_surface(arcs, w)
                               /\ UNCHANGED <<control, panic>>
                          ELSE /\ tasks' = tasks
                               /\ arcs' = arcs
                               /\ Abort(Panicked(w, "create_surface").panic)
            ELSE IF tasks[w] = "request_adapter"
            THEN \* lines 38-41: adapter.unwrap(), request_device(..).await
                 /\ ops' = <<>>
                 /\ size_read' = None
                 /\ proxy_events' = proxy_events
                 /\ UNCHANGED <<fate, arcs>>
                 /\ IF ok THEN tasks' = [tasks EXCEPT ![w] = "request_device"]
                               /\ UNCHANGED <<control, panic>>
                          ELSE tasks' = tasks
                               /\ Abort(Panicked(w, "request_adapter").panic)
            ELSE \* lines 42-69 and 138: device.unwrap(), the rest of State::new, send_event
                 LET r == IF ok THEN new_finish(w, caps, inner_size)
                                ELSE Panicked(w, "request_device") IN
                 /\ ops' = r.ops
                 /\ size_read' = r.read
                 /\ IF r.panic # None
                    THEN /\ Abort(r.panic)
                         /\ UNCHANGED <<tasks, proxy_events, fate, arcs>>
                    ELSE \* State::new returns (its window argument is dropped); a
                         \* State the proxy does not take is dropped with the future
                         /\ tasks' = [tasks EXCEPT ![w] = "done"]
                         /\ proxy_events' = send_event(proxy_events, r.value[1])
                         /\ IF Len(proxy_events') > Len(proxy_events)
                            THEN /\ fate' = fate
                                 /\ arcs' = arc_drop(arcs, w)
                            ELSE /\ fate' = [fate EXCEPT ![w] = "discarded"]
                                 /\ arcs' = drop_state(arc_drop(arcs, w), r.value)
                         /\ UNCHANGED <<control, panic>>

\* App::user_event: the completion event at the head of the proxy's queue is delivered.
user_event ==
    /\ control = "running"
    /\ proxy_events # <<>>
    /\ handler' = "user_event"
    /\ state' = on_user_event(state, Head(proxy_events))
    /\ proxy_events' = Tail(proxy_events)
    /\ redraw_requested' = (IF target = "wasm" THEN request_redraw(redraw_requested, window)
                             ELSE redraw_requested)
    /\ last_resize' = (IF target = "wasm" THEN None ELSE last_resize)
    /\ fate' = [fate EXCEPT ![Head(proxy_events).surface.window] =
                    IF state' = Some(Head(proxy_events)) THEN "installed" ELSE "discarded"]
    /\ arcs' = (IF state' = state THEN drop_state(arcs, Some(Head(proxy_events)))
                ELSE drop_state(arcs, state))
    /\ ops' = <<>>
    /\ size_read' = None
    /\ UNCHANGED <<target, caps, control, panic, created, window, tasks, inner_size,
                   lastKnown>>

\* App::window_event(CloseRequested)
window_event_CloseRequested ==
    /\ control = "running"
    /\ window # None
    /\ handler' = "CloseRequested"
    /\ control' = on_close(control)
    /\ ops' = <<>>
    /\ size_read' = None
    /\ UNCHANGED <<target, caps, panic, created, window, state, tasks, proxy_events,
                   inner_size, redraw_requested, last_resize, lastKnown, fate, arcs>>

\* App::window_event(Resized(size)): the host has given the window the client size `size`.
window_event_Resized ==
    /\ control = "running"
    /\ window # None
    /\ \E size \in PhysicalSize :
         /\ handler' = "Resized"
         /\ inner_size' = size
         /\ lastKnown' = Some(size)
         /\ state' = on_resized(state, size).state
         /\ ops' = on_resized(state, size).ops
         /\ last_resize' = (IF state # None THEN Some(size) ELSE last_resize)
    /\ size_read' = None
    /\ UNCHANGED <<target, caps, control, panic, created, window, tasks, proxy_events,
                   redraw_requested, fate, arcs>>

\* App::window_event(RedrawRequested)
window_event_RedrawRequested ==
    /\ control = "running"
    /\ window # None
    /\ \E acquired \in BOOLEAN :
         LET r == on_redraw(state, acquired) IN
         /\ handler' = "RedrawRequested"
         /\ ops' = r.ops
         /\ redraw_requested' = FALSE
         /\ IF r.panicked
            THEN Abort(Some([init |-> 0, at |-> "render"]))
            ELSE UNCHANGED <<control, panic>>
    /\ size_read' = None
    /\ UNCHANGED <<target, caps, created, window, state, tasks, proxy_events,
                   inner_size, last_resize, lastKnown, fate, arcs>>

\* App::window_event, any other event: the `_ => ()` arm does nothing.
window_event_other ==
    /\ control = "running"
    /\ window # None
    /\ UNCHANGED vars

\* event_loop.run_app: the loop dispatches one event, or a spawned future is polled.
\* The loop dispatches to the handlers only while it runs (every handler's guard
\* control = "running"): after event_loop.exit() or a panic no handler is called.
\* A spawned future is polled by the browser, not by the loop, and goes on after exit.
Next ==
    \/ resumed
    \/ task_poll
    \/ user_event
    \/ window_event_CloseRequested
    \/ window_event_Resized
    \/ window_event_RedrawRequested
    \/ window_event_other

Spec == Init /\ [][Next]_vars

\* The host serves a requested redraw: window.request_redraw() makes it send a
\* RedrawRequested event.
redraw_served == window_event_RedrawRequested /\ redraw_requested

\* The loop under fair event delivery: an event sent through the proxy wakes the
\* loop and is delivered to user_event, and a requested redraw is served.
SpecFair ==
    Init /\ [][Next]_vars /\ WF_vars(user_event) /\ WF_vars(redraw_served)

\* Format selection: the blocking bootstrap on hosts reporting every list of formats
\* up to MaxFormats long.
InitFormat ==
    Boot({"native"}, {[formats |-> f, alpha_modes |-> <<"Opaque">>] : f \in FormatLists})

NextFormat == resumed

SpecFormat == InitFormat /\ [][NextFormat]_vars

\* ================================================================ properties
\* The (width, height) a Surface Configuration records.
SizeOf(config) == [width |-> config.width, height |-> config.height]

\* The calls State::render makes and no other code does.
RenderCalls == {"get_current_texture", "create_view", "create_command_encoder",
                "begin_render_pass", "finish", "submit", "present"}

\* The names of the GPU calls of the last step, in order.
OpNames == [i \in DOMAIN ops |-> ops[i].op]

\* The positions of call `name` among the GPU calls of the last step.
Calls(name) == {i \in DOMAIN ops : ops[i].op = name}

\* Every State there is: the installed one and those travelling in completion events.
States == {state[i] : i \in DOMAIN state} \cup {proxy_events[i] : i \in DOMAIN proxy_events}

\* C1: no render before ready. A RedrawRequested event dispatched while App.state
\* is None makes no GPU call at all (no frame acquisition, submission or present),
\* does not abort and leaves App.state None; and no step taken while the Manager is
\* absent makes any of the calls of State::render.
C1_NoRenderBeforeReady ==
    [][ /\ (handler' = "RedrawRequested" /\ state = None)
            => (ops' = <<>> /\ control' = control /\ panic' = panic /\ state' = None)
        /\ state = None
            => \A i \in DOMAIN ops' : ops'[i].op \notin RenderCalls ]_vars

\* A redraw was dispatched with no Manager installed, and the loop goes on.
C1_Witness ==
    handler = "RedrawRequested" /\ state = None /\ window # None /\ control = "running"

\* C2: after any sequence of State::resize calls on the installed Manager, the
\* configuration's (width, height) is the size passed to the most recent call, and
\* so is the size of the configuration last applied to the surface.
C2_ConfigIsLastResize ==
    (state # None /\ last_resize # None)
        => /\ SizeOf(state[1].config) = last_resize[1]
           /\ SizeOf(state[1].surface.config) = last_resize[1]

\* A resize to 2x1 was the last one, on a Manager that was built or resized to another size before.
C2_Witness ==
    /\ state # None
    /\ handler = "Resized"
    /\ last_resize = Some([width |-> 2, height |-> 1])
    /\ size_read = None

\* C3: every configuration applied to a surface (in State::new and in every
\* State::resize) has width > 0 and height > 0.
C3_NonZeroConfiguration ==
    \A st \in States : st.surface.config.width > 0 /\ st.surface.config.height > 0

\* C4: if the size read at line 50 has a zero dimension, State::new aborts there:
\* nothing is configured, no State of that initialization is installed or sent, and
\* the process makes no further step.
C4_ZeroSizeIsFatal ==
    /\ [](  (size_read # None /\ ~(size_read[1].width > 0 /\ size_read[1].height > 0))
            => /\ control = "aborted"
               /\ panic # None
               /\ panic[1].at = "assert_size"
               /\ ops = <<>>
               /\ \A st \in States : st.surface.window # panic[1].init )
    /\ [][control = "aborted" => FALSE]_vars

\* State::new read a size with a zero dimension.
C4_Witness ==
    /\ size_read # None
    /\ size_read[1].width = 0
    /\ size_read[1].height = 1
    /\ control = "aborted"

\* C5: State::resize with the size the configuration already records changes no
\* field of the Manager (configuration and surface alike) and makes exactly one
\* call, a surface reconfiguration; and resize(s) twice is resize(s) once.
C5_IdempotentResize ==
    /\ [][ (handler' = "Resized" /\ state # None /\ last_resize' = Some(SizeOf(state[1].config)))
            => (state' = state /\ OpNames' = <<"configure">>) ]_vars
    /\ [](state # None =>
            \A s \in PhysicalSize : resize(resize(state[1], s), s) = resize(state[1], s))

\* A Manager was resized to the size it already had.
C5_Witness ==
    /\ handler = "Resized"
    /\ state # None
    /\ last_resize = Some(SizeOf(state[1].config))
    /\ lastKnown = last_resize
    /\ OpNames = <<"configure">>

\* The position of the one call `name` among the GPU calls of the last step
\* (0 when there is none, or more than one).
TheCall(name) ==
    IF Cardinality(Calls(name)) = 1 THEN CHOOSE i \in Calls(name) : TRUE ELSE 0

\* C6: every State::render that completes makes, in this order, exactly one frame
\* acquisition, one view, one render pass clearing to the fixed color with no draw
\* call, one submission of one command buffer and one present, and nothing else;
\* it leaves the Manager (the Surface Configuration included) unchanged.
C6_SingleClearColor ==
    [][ (handler' = "RedrawRequested" /\ state # None /\ control' = "running")
        => /\ state' = state
           /\ \A i \in DOMAIN ops' : ops'[i].op \in RenderCalls /\ ops'[i].draws = 0
           /\ 0 < TheCall("get_current_texture")'
           /\ TheCall("get_current_texture")' < TheCall("create_view")'
           /\ TheCall("create_view")' < TheCall("begin_render_pass")'
           /\ TheCall("begin_render_pass")' < TheCall("submit")'
           /\ TheCall("submit")' < TheCall("present")'
           /\ ops'[TheCall("begin_render_pass")'].color = "RED"
           /\ ops'[TheCall("submit")'].buffers = 1 ]_vars

\* A render ran to completion on an installed Manager.
C6_Witness ==
    /\ handler = "RedrawRequested"
    /\ state # None
    /\ control = "running"
    /\ Calls("present") # {}

\* C7: whenever a Manager is installed, its configuration's (width, height) is the
\* last known client size of the window: the size of the last Resized event
\* delivered for it (when none was, the size read at initialization, which is what
\* the configuration holds).
C7_ConfigTracksWindow ==
    (state # None /\ lastKnown # None) => SizeOf(state[1].config) = lastKnown[1]

\* C8: handling CloseRequested asks the loop to exit, and from then on no event is
\* processed: no handler runs, App.state and App.window stay as they are (no
\* resize, no installation), no completion event is queued or delivered, and no
\* call of State::render is made.
C8_CloseIsTerminal ==
    /\ [](handler = "CloseRequested" => control = "exited")
    /\ [][ control = "exited"
            => /\ handler' = "task"
               /\ control' # "running"
               /\ state' = state
               /\ window' = window
               /\ last_resize' = last_resize
               /\ proxy_events' = proxy_events
               /\ \A i \in DOMAIN ops' : ops'[i].op \notin RenderCalls ]_vars

\* The loop was closed while an initialization was pending; that initialization
\* then ran to its end and its Manager was not installed.
C8_Witness ==
    /\ control = "exited"
    /\ handler = "task"
    /\ state = None
    /\ \E w \in DOMAIN tasks : tasks[w] = "done"

\* The fallible steps of State::new the claim C9 names.
InitSteps == {"create_surface", "request_adapter", "request_device", "assert_size"}

\* C9: if a step of State::new fails, the process aborts: no State of that
\* initialization is installed in App.state or travels in a completion event, and
\* the process makes no further step (no resize, no render).
C9_InitFailureIsTerminal ==
    /\ [](  (panic # None /\ panic[1].at \in InitSteps)
            => /\ control = "aborted"
               /\ \A st \in States : st.surface.window # panic[1].init )
    /\ [][control = "aborted" => FALSE]_vars

\* The second initialization failed for want of an adapter, after the first succeeded.
C9_Witness ==
    /\ target = "wasm"
    /\ panic # None
    /\ panic[1].at = "request_adapter"
    /\ panic[1].init = 2
    /\ state # None

\* C10: the format State::new puts in the configuration is a member of the reported
\* list: its first sRGB element if it has one, its first element otherwise.
C10_FormatSelection ==
    \A st \in States :
        LET formats == caps.formats
            srgb == {i \in DOMAIN formats : is_srgb(formats[i])}
        IN  /\ formats # <<>>
            /\ \E i \in DOMAIN formats : formats[i] = st.config.format
            /\ IF srgb # {}
               THEN st.config.format = formats[CHOOSE i \in srgb : \A j \in srgb : i <= j]
               ELSE st.config.format = formats[1]

\* A Manager was built on a host whose second format is the first sRGB one of two.
C10_Witness ==
    /\ state # None
    /\ caps.formats = <<"Bgra8Unorm", "Rgba8UnormSrgb", "Bgra8UnormSrgb">>
    /\ state[1].config.format = "Rgba8UnormSrgb"


\* C11: over any sequence of host events the Controller creates the window exactly
\* once, at the first resumed signal: no second window is ever created and
\* App.window, once set, keeps referring to the first window.
C11_WindowCreatedOnce ==
    /\ created <= 1
    /\ window # None => window = Some(1)

\* The initializations whose completion event waits in the proxy's queue.
Queued == {proxy_events[i].surface.window : i \in DOMAIN proxy_events}

\* C12: on the wasm target the delivery of a completion event installs the
\* State it carries and requests a redraw in the same step; under fair event
\* delivery, and unless the loop is closed or the process aborts first, every
\* successful initialization (its completion event is queued) is followed by
\* the delivery of all queued completion events and then by a call of
\* State::render on the installed Manager.
C12_DeferredHandOff ==
    /\ [][ (handler' = "user_event" /\ target = "wasm" /\ proxy_events # <<>>) =>
               /\ state' = Some(Head(proxy_events))
               /\ redraw_requested'
         ]_vars
    /\ (Queued # {}) ~>
           \/ /\ Queued = {}
              /\ state # None
              /\ handler = "RedrawRequested"
              /\ Calls("get_current_texture") # {}
           \/ control # "running"

C12_Witness ==
    /\ target = "wasm"
    /\ created = 1
    /\ fate[1] = "installed"
    /\ handler = "RedrawRequested"
    /\ ~redraw_requested
    /\ Calls("present") # {}

\* The window events that reach a match arm with a body.
WindowEvents == {"CloseRequested", "Resized", "RedrawRequested"}

\* C13: on the native target the initialization completes inside resumed: the
\* Controller has either no window and no Manager or both (never a window
\* without a Manager), no initialization is ever pending, every window event is
\* dispatched with the Manager installed, every Resized reaches State::resize
\* and every RedrawRequested reaches State::render.
C13_BlockingBootstrap ==
    target = "native" =>
        /\ control # "aborted" => (window = None <=> state = None)
        /\ Pending = {} /\ proxy_events = <<>>
        /\ handler \in WindowEvents => state # None
        /\ handler = "Resized" =>
               /\ last_resize = lastKnown
               /\ SizeOf(state[1].config) = lastKnown[1]
               /\ Calls("configure") # {}
        /\ handler = "RedrawRequested" => Calls("get_current_texture") # {}

C13_Witness ==
    /\ target = "native"
    /\ handler = "Resized"
    /\ state # None
    /\ lastKnown = Some([width |-> 2, height |-> 1])
    /\ SizeOf(state[1].config) = [width |-> 2, height |-> 1]

\* C14: on the wasm target resumed returns with the initialization it spawned
\* still pending (no Manager of the new window exists yet); while an
\* initialization is pending the loop can dispatch CloseRequested, Resized and
\* RedrawRequested; and a CloseRequested closes the loop at once, pending
\* initializations or not.
C14_ResponsiveWhilePending ==
    target = "wasm" =>
        /\ (handler = "resumed" /\ control = "running") =>
               /\ window = Some(created)
               /\ tasks[created] = "spawned"
               /\ \A st \in States : st.surface.window # created
        /\ (Pending # {} /\ control = "running") =>
               /\ ENABLED window_event_CloseRequested
               /\ ENABLED window_event_Resized
               /\ ENABLED window_event_RedrawRequested
        /\ handler = "CloseRequested" => control = "exited"

C14_Witness ==
    /\ target = "wasm"
    /\ handler = "CloseRequested"
    /\ control = "exited"
    /\ Pending # {}
    /\ state = None

\* C15: a Resized or RedrawRequested dispatched while the Manager is absent
\* changes neither App.window nor App.state, makes no GPU call and queues
\* nothing; the Manager a completion event installs is the State as State::new
\* built it (no resize or render is run at installation), and that State's
\* configured size is the size the initialization read at line 50.
C15_DroppedNotBuffered ==
    [][ /\ (handler' \in {"Resized", "RedrawRequested"} /\ state = None) =>
               /\ state' = None
               /\ window' = window
               /\ ops' = <<>>
               /\ tasks' = tasks
               /\ proxy_events' = proxy_events
               /\ control' = control
        /\ (handler' = "user_event" /\ target = "wasm" /\ proxy_events # <<>>) =>
               /\ state' = Some(Head(proxy_events))
               /\ ops' = <<>>
        /\ handler' # "user_event" =>
               \/ proxy_events' = proxy_events
               \/ /\ handler' = "task"
                  /\ size_read' # None
                  /\ Len(proxy_events') = Len(proxy_events) + 1
                  /\ SubSeq(proxy_events', 1, Len(proxy_events)) = proxy_events
                  /\ SizeOf(proxy_events'[Len(proxy_events')].config) = size_read'[1]
        /\ (handler' = "resumed" /\ target = "native" /\ state' # state) =>
               /\ size_read' # None
               /\ SizeOf(state'[1].config) = size_read'[1]
      ]_vars

C15_Witness ==
    /\ target = "wasm"
    /\ created = 1
    /\ handler = "user_event"
    /\ state # None
    /\ lastKnown # None
    /\ size_ok(lastKnown[1])
    /\ lastKnown[1] # SizeOf(state[1].config)

\* C16, as claimed: no started initialization ever has its result discarded.
C16_NoCancellation ==
    \A w \in 1 .. MaxResumes : fate[w] # "discarded"

\* C16, amended: a started initialization is never abandoned while the loop
\* runs (it is pending, or its completion event is queued, or its Manager was
\* installed); once it is over and the process has not aborted, its Manager was
\* installed or its result was discarded; and a result is discarded only when
\* the loop was closed before the completion event was delivered.
C16_NoCancellationUnlessClosed ==
    \A w \in 1 .. created :
        /\ fate[w] = "discarded" => control # "running"
        /\ control = "running" =>
               (w \in Pending \/ w \in Queued \/ fate[w] = "installed")
        /\ (control = "exited" /\ w \notin Pending /\ w \notin Queued) =>
               fate[w] \in {"installed", "discarded"}
        /\ (w \in Pending \/ w \in Queued) => fate[w] = "none"

C16_Witness ==
    /\ control = "exited"
    /\ handler = "task"
    /\ tasks[1] = "done"
    /\ fate[1] = "discarded"
    /\ state = None

\* The windows that have a live surface: of an installed Manager, of a Manager
\* in an undelivered completion event, of an initialization past create_surface.
SurfaceWindows ==
    {st.surface.window : st \in States}
        \cup {w \in 1 .. MaxResumes : tasks[w] \in {"request_adapter", "request_device"}}

\* The owners of window w besides its surface: App.window and the pending future.
OtherOwners(w) ==
    (IF window = Some(w) THEN 1 ELSE 0) + (IF w \in Pending THEN 1 ELSE 0)

\* C17: in a process that has not aborted, the window of every live surface is
\* alive (its Arc's strong count is positive), and the surface owns one of the
\* references itself: the count exceeds the number of the window's other owners.
C17_SurfaceKeepsWindow ==
    control # "aborted" =>
        \A w \in SurfaceWindows :
            /\ arcs[w] > 0
            /\ arcs[w] = OtherOwners(w) + 1

C17_Witness ==
    /\ control = "running"
    /\ window = Some(2)
    /\ state # None
    /\ state[1].surface.window = 1
    /\ arcs[1] = 1

\* C18: an initialization is started only for a window that has been created,
\* an installed Manager implies a present window, and the Manager slot, once
\* filled, never becomes empty again.
C18_BootstrapOrder ==
    /\ [](\A w \in 1 .. MaxResumes : tasks[w] # "none" => (w <= created /\ window # None))
    /\ [](\A st \in States : st.surface.window \in 1 .. created)
    /\ [](state # None => window # None)
    /\ [][state # None => state' # None]_vars

C18_Witness ==
    /\ state # None
    /\ window # None
    /\ handler = "Resized"
    /\ created = 2

\* C19: whenever a Manager is installed (in a process that has not aborted), its
\* surface was derived from the window App.window holds.
C19_ManagerMatchesWindow ==
    (control # "aborted" /\ state # None) =>
        window = Some(state[1].surface.window)

====
